---- MODULE Spec2Model ----
(***************************************************************************)
(* Model of the soeji image converter (src/converter): the request         *)
(* handler get_image, the object fetch, and the conversion engine          *)
(* (decode -> resize -> encode).                                           *)
(*                                                                         *)
(* Strings that the code inspects character by character (the URL path,    *)
(* the Accept header value, the fit parameter) are sequences of            *)
(* one-character strings.  Option<T> is a sequence of length 0 (None) or   *)
(* 1 (Some(v)).                                                            *)
(***************************************************************************)
EXTENDS Integers, Sequences, FiniteSets, TLC

VARIABLES
    config,        \* Config: max_dimension, webp_default_quality
    pc,            \* position of the handler / of the pure-function driver
    params,        \* the request: path, w, h, q, fit, headers
    prepared,      \* locals of get_image alive across the await on get_object
    fetchCalls,    \* number of calls of S3Client::get_object for the request
    convertCalls,  \* number of calls of convert for the request
    fetched,       \* what get_object returned
    request,       \* the ConversionRequest handed to convert
    resized,       \* convert's local: the image that resize_image returned
    result,        \* what convert returned (ConversionResult, Err, or a panic)
    outcome,       \* what get_image returned: Ok / Err(e) / panic
    responses,     \* the responses written for the request, in order
    path,          \* input of parse_path (path driver)
    parsed         \* output of parse_path (path driver)

vars == <<config, pc, params, prepared, fetchCalls, convertCalls, fetched,
          request, resized, result, outcome, responses, path, parsed>>

-----------------------------------------------------------------------------
(* Bounds of the model *)

\* longest URL path explored by the parse_path driver
MaxPathLen == 5
\* the configured max_dimension explored by the handler runs
MaxDimension == 3
\* largest source image side explored by the handler runs
MaxSourceSide == 3
\* largest source image side / requested side explored by the convert driver
MaxConvertSide == 11
\* the max_dimension of the convert driver: the largest requested side
MaxConvertTarget == 15
\* longest URL path explored by the handler runs
MaxHandlerPathLen == 3

-----------------------------------------------------------------------------
(* Option<T> *)

None == <<>>
Some(v) == <<v>>
IsSome(o) == Len(o) = 1
IsNone(o) == Len(o) = 0
Unwrap(o) == o[1]

-----------------------------------------------------------------------------
(* ConverterError (error.rs).  A message is a sequence of text fragments:  *)
(* a fixed message is one fragment, the storage error text is its words.   *)

InvalidParameter(msg) == [kind |-> "InvalidParameter", msg |-> <<msg>>]
DimensionTooLarge(requested, max) ==
    [kind |-> "DimensionTooLarge", requested |-> requested, max |-> max]
NotFound(what) == [kind |-> "NotFound", what |-> what]
S3Error(msg) == [kind |-> "S3Error", msg |-> msg]
ImageError(msg) == [kind |-> "ImageError", msg |-> <<msg>>]
WebPError(msg) == [kind |-> "WebPError", msg |-> <<msg>>]
Internal(msg) == [kind |-> "Internal", msg |-> <<msg>>]

Ok(v) == [ok |-> TRUE, value |-> v]
Err(e) == [ok |-> FALSE, err |-> e]

-----------------------------------------------------------------------------
(* parse_path (handlers/image.rs) *)

\* str::trim_start_matches('/'): every leading '/' is removed
RECURSIVE TrimStartSlashes(_)
TrimStartSlashes(s) ==
    IF Len(s) > 0 /\ Head(s) = "/" THEN TrimStartSlashes(Tail(s)) ELSE s

\* str::find('/'): index (1-based) of the first '/', 0 when there is none
FindSlash(s) ==
    IF \E i \in 1..Len(s) : s[i] = "/"
    THEN CHOOSE i \in 1..Len(s) : s[i] = "/" /\ \A j \in 1..(i-1) : s[j] # "/"
    ELSE 0

parse_path(p) ==
    LET t == TrimStartSlashes(p)
        pos == FindSlash(t)
    IN  IF pos # 0
        THEN LET bucket == SubSeq(t, 1, pos - 1)
                 key == SubSeq(t, pos + 1, Len(t))
             IN  IF Len(bucket) = 0
                 THEN Err(InvalidParameter("bucket name is empty"))
                 ELSE IF Len(key) = 0
                 THEN Err(InvalidParameter("object key is empty"))
                 ELSE Ok([bucket |-> bucket, key |-> key])
        ELSE Err(InvalidParameter("path must be in format: /{bucket}/{key}"))

PathChars == {"/", "a", "b"}

RECURSIVE SeqsUpTo(_, _)
SeqsUpTo(S, n) ==
    IF n = 0 THEN {<<>>}
    ELSE LET shorter == SeqsUpTo(S, n - 1)
         IN  shorter \cup {Append(s, c) : s \in {t \in shorter : Len(t) = n - 1}, c \in S}

Paths == SeqsUpTo(PathChars, MaxPathLen)

-----------------------------------------------------------------------------
(* f64 arithmetic of the aspect-ratio computations.                         *)
(*                                                                         *)
(* The code computes  a as f64 * (b as f64 / c as f64)  for u32 a, b, c.   *)
(* Both operations round to nearest with a 53-bit significand.  For the    *)
(* small operands of this model the product differs from the exact         *)
(* rational a*b/c by far less than 1/(2c), so truncation and rounding can  *)
(* only go wrong when a*b/c is itself an integer or a half-integer; there  *)
(* the sign of the rounding error decides, and it is computed exactly      *)
(* below with integers only.                                               *)

RECURSIVE Pow2(_)
Pow2(n) == IF n = 0 THEN 1 ELSE 2 * Pow2(n - 1)

RECURSIVE IsPow2(_)
IsPow2(n) == IF n = 1 THEN TRUE ELSE IF n < 1 \/ n % 2 = 1 THEN FALSE ELSE IsPow2(n \div 2)

RECURSIVE Gcd(_, _)
Gcd(a, b) == IF b = 0 THEN a ELSE Gcd(b, a % b)

\* 2^k mod c
RECURSIVE Pow2Mod(_, _)
Pow2Mod(k, c) == IF k = 0 THEN 1 % c ELSE (2 * Pow2Mod(k - 1, c)) % c

\* the binary exponent of b/c: the e with 2^e <= b/c < 2^(e+1)   (b, c > 0)
RECURSIVE FloorLog2Ratio(_, _)
FloorLog2Ratio(b, c) ==
    IF b >= 2 * c THEN FloorLog2Ratio(b, 2 * c) + 1
    ELSE IF b < c THEN FloorLog2Ratio(2 * b, c) - 1
    ELSE 0

\* Whether the f64 product a * (b / c) lies strictly below the exact a*b/c,
\* for a*b/c an integer or half-integer (2ab divisible by c).
\*   b/c = M / 2^k exactly representable  => the product is exact.
\*   otherwise fl(b/c) = b/c + d/(c 2^k), k = 52 - e, with d = -rem when the
\*   quotient is rounded down (rem = b 2^k mod c < c/2) and d = c - rem when
\*   rounded up; the product a * fl(b/c) = p + a d / (c 2^k) then rounds back
\*   to p iff the error is at most half the spacing of the f64 values below
\*   p, which is 2^(E-53) for p in (2^E, 2^(E+1)) and 2^(E-54) for p = 2^E.
ProductBelowExact(a, b, c) ==
    IF IsPow2(c \div Gcd(b, c)) THEN FALSE
    ELSE LET e == FloorLog2Ratio(b, c)
             rem == (b * Pow2Mod(52 - e, c)) % c
             twoP == (2 * a * b) \div c
             E == FloorLog2Ratio(twoP, 2)
             s == IF IsPow2(twoP) THEN 1 ELSE 0
             diff == (e + 1 + s) - E
             L == a * rem * Pow2(IF diff > 0 THEN diff ELSE 0)
             R == c * Pow2(IF diff < 0 THEN 0 - diff ELSE 0)
         IN  IF 2 * rem > c THEN FALSE ELSE L > R

\* (a as f64 * (b as f64 / c as f64)) as u32 : truncation toward zero
TruncMulRatio(a, b, c) ==
    LET fl == (a * b) \div c
    IN  IF (a * b) % c = 0 /\ ProductBelowExact(a, b, c) THEN fl - 1 ELSE fl

\* (a as f64 * (b as f64 / c as f64)).round() : half away from zero
RoundMulRatio(a, b, c) ==
    LET r == (2 * a * b + c) \div (2 * c)
        twoP == (2 * a * b) \div c
    IN  IF (2 * a * b) % c = 0 /\ twoP % 2 = 1 /\ ProductBelowExact(a, b, c)
        THEN r - 1 ELSE r

Max(a, b) == IF a >= b THEN a ELSE b
Min(a, b) == IF a <= b THEN a ELSE b

-----------------------------------------------------------------------------
(* The image crate operations that resize_image calls, by their dimensions *)

Image(w, h) == [width |-> w, height |-> h]

\* DynamicImage::resize_exact: the result has exactly the given dimensions
resize_exact(img, nwidth, nheight) == Image(nwidth, nheight)

\* image::math::resize_dimensions: scale (width, height) by the larger (fill)
\* or the smaller (fit) of nwidth/width and nheight/height, each side
\* rounded and at least 1
resize_dimensions(width, height, nwidth, nheight, fill) ==
    LET wLarger == nwidth * height >= nheight * width   \* wratio >= hratio
        useW == IF fill THEN wLarger ELSE ~wLarger \/ nwidth * height = nheight * width
        b == IF useW THEN nwidth ELSE nheight
        c == IF useW THEN width ELSE height
    IN  Image(Max(RoundMulRatio(width, b, c), 1), Max(RoundMulRatio(height, b, c), 1))

\* imageops::crop: the rectangle is clamped to the image
crop(img, x, y, width, height) ==
    LET cx == Min(x, img.width)
        cy == Min(y, img.height)
    IN  Image(Min(width, img.width - cx), Min(height, img.height - cy))

\* DynamicImage::resize_to_fill: scale to cover the box, crop the overflow
\* around the centre
resize_to_fill(img, nwidth, nheight) ==
    LET d == resize_dimensions(img.width, img.height, nwidth, nheight, TRUE)
        intermediate == resize_exact(img, d.width, d.height)
    IN  IF nwidth * intermediate.height > intermediate.width * nheight
        THEN crop(intermediate, 0, (intermediate.height - nheight) \div 2, nwidth, nheight)
        ELSE crop(intermediate, (intermediate.width - nwidth) \div 2, 0, nwidth, nheight)

\* DynamicImage::resize: scale to fit within the box, aspect ratio kept
resize(img, nwidth, nheight) ==
    LET d == resize_dimensions(img.width, img.height, nwidth, nheight, FALSE)
    IN  resize_exact(img, d.width, d.height)

-----------------------------------------------------------------------------
(* services/converter.rs *)

OutputFormats == {"Png", "WebP"}
FitModes == {"Cover", "Contain", "Fill"}

\* mutant of resize_both: COVER served by the aspect-preserving fit
resize_both_cover_as_contain(img, w, h, fit_mode) ==
    CASE fit_mode = "Cover" -> resize(img, w, h)
      [] fit_mode = "Contain" -> resize(img, w, h)
      [] fit_mode = "Fill" -> resize_exact(img, w, h)

\* resize_image, both dimensions given
resize_both(img, w, h, fit_mode) ==
    CASE fit_mode = "Cover" -> resize_to_fill(img, w, h)
      [] fit_mode = "Contain" -> resize(img, w, h)
      [] fit_mode = "Fill" -> resize_exact(img, w, h)

\* mutant of resize_width_only: the computed height rounded, not truncated
resize_width_only_rounded(img, w) ==
    resize_exact(img, w, RoundMulRatio(img.height, w, img.width))

\* resize_image, only the width given
resize_width_only(img, w) ==
    LET new_height == TruncMulRatio(img.height, w, img.width)
    IN  resize_exact(img, w, new_height)

\* resize_image, only the height given
resize_height_only(img, h) ==
    LET new_width == TruncMulRatio(img.width, h, img.height)
    IN  resize_exact(img, new_width, h)

resize_image(img, width, height, fit_mode) ==
    CASE IsSome(width) /\ IsSome(height) ->
            resize_both(img, Unwrap(width), Unwrap(height), fit_mode)
      [] IsSome(width) /\ IsNone(height) -> resize_width_only(img, Unwrap(width))
      [] IsNone(width) /\ IsSome(height) -> resize_height_only(img, Unwrap(height))
      [] IsNone(width) /\ IsNone(height) -> img

\* Stored objects: bytes that are no image, or an encoded image of some size
Undecodable == [decodable |-> FALSE, width |-> 0, height |-> 0]
EncodedImage(w, h) == [decodable |-> TRUE, width |-> w, height |-> h]
Bodies(side) == {Undecodable} \cup {EncodedImage(w, h) : w \in 1..side, h \in 1..side}

\* image::load_from_memory: bytes that are no supported image fail to decode
load_from_memory(data) ==
    IF data.decodable THEN Ok(Image(data.width, data.height))
    ELSE Err(ImageError("decode"))

\* Outcomes of a call: a value, an error, or a panic
Returned(v) == [kind |-> "ok", value |-> v]
Failed(e) == [kind |-> "err", err |-> e]
Panicked == [kind |-> "panic"]

\* encode_image.  The PNG encoder reports an image with a zero side as an
\* error.  The WebP branch has no error path (encoder.encode returns the
\* buffer, not a Result): when libwebp rejects the picture (a zero side) the
\* call either panics inside the webp crate or hands back an empty buffer,
\* depending on the crate version.
encode_image(img, format, quality) ==
    IF format = "Png"
    THEN IF img.width = 0 \/ img.height = 0
         THEN {Failed(ImageError("encode"))}
         ELSE {Returned([data |-> [format |-> "png", width |-> img.width,
                                   height |-> img.height, quality |-> 0],
                         content_type |-> "image/png"])}
    ELSE IF img.width = 0 \/ img.height = 0
         THEN {Panicked,
               Returned([data |-> [format |-> "empty", width |-> 0, height |-> 0,
                                   quality |-> 0],
                         content_type |-> "image/webp"])}
         ELSE {Returned([data |-> [format |-> "webp", width |-> img.width,
                                   height |-> img.height, quality |-> quality],
                         content_type |-> "image/webp"])}

\* convert: the possible runs of convert(request), each with the value it
\* returns (ret) and its local resized (None when decoding failed)
convert(req) ==
    LET loaded == load_from_memory(req.data)
    IN  IF ~loaded.ok THEN {[resized |-> None, ret |-> Failed(loaded.err)]}
        ELSE LET img == loaded.value
                 r == resize_image(img, req.width, req.height, req.fit_mode)
             IN  { [resized |-> Some(r),
                    ret |-> IF enc.kind = "ok"
                            THEN Returned([data |-> enc.value.data,
                                           content_type |-> enc.value.content_type,
                                           original_width |-> img.width,
                                           original_height |-> img.height,
                                           output_width |-> r.width,
                                           output_height |-> r.height])
                            ELSE enc]
                   : enc \in encode_image(r, req.output_format, req.quality) }

-----------------------------------------------------------------------------
(* error.rs: ConverterError::into_response *)

StatusOK == 200
StatusBadRequest == 400
StatusNotFound == 404
StatusInternalServerError == 500
StatusBadGateway == 502

ErrorResponse(status, message) ==
    [status |-> status, content_type |-> "text/plain; charset=utf-8",
     cache_control |-> "", vary |-> "", body |-> [kind |-> "text", text |-> message]]

\* Display of the variants whose message is echoed to the caller
to_string(e) ==
    CASE e.kind = "NotFound" -> <<"Image not found: ", e.what>>
      [] e.kind = "InvalidParameter" -> <<"Invalid parameter: ", e.msg>>
      [] e.kind = "DimensionTooLarge" ->
            <<"Dimension too large: ", e.requested, " exceeds maximum ", e.max>>

into_response(e) ==
    CASE e.kind = "NotFound" -> ErrorResponse(StatusNotFound, to_string(e))
      [] e.kind = "InvalidParameter" -> ErrorResponse(StatusBadRequest, to_string(e))
      [] e.kind = "DimensionTooLarge" -> ErrorResponse(StatusBadRequest, to_string(e))
      [] e.kind = "S3Error" ->
            ErrorResponse(StatusBadGateway, <<"Failed to fetch image from storage">>)
      [] e.kind = "ImageError" ->
            ErrorResponse(StatusInternalServerError, <<"Failed to process image">>)
      [] e.kind = "WebPError" ->
            ErrorResponse(StatusInternalServerError, <<"Failed to encode image">>)
      [] e.kind = "Internal" ->
            ErrorResponse(StatusInternalServerError, <<"Internal server error">>)

-----------------------------------------------------------------------------
(* services/s3.rs: S3Client::get_object *)

\* str::contains on the error text, a sequence of words
ContainsWord(str, word) == \E i \in 1..Len(str) : str[i] = word

\* What the storage side does for one call: Bucket::new may fail; the request
\* may fail with an error text; otherwise a response with a status and a body
get_object(bucket_name, key, s3) ==
    IF ~s3.new_ok THEN Err(S3Error(s3.err_str))
    ELSE IF ~s3.get_ok
    THEN IF ContainsWord(s3.err_str, "NoSuchKey") \/ ContainsWord(s3.err_str, "404")
            \/ ContainsWord(s3.err_str, "not found")
         THEN Err(NotFound(bucket_name \o <<"/">> \o key))
         ELSE Err(S3Error(s3.err_str))
    ELSE IF s3.status = 404
    THEN Err(NotFound(bucket_name \o <<"/">> \o key))
    ELSE Ok(s3.body)

-----------------------------------------------------------------------------
(* handlers/image.rs *)

\* the needle of determine_format: "image/webp"
WebpNeedle == <<"i", "m", "a", "g", "e", "/", "w", "e", "b", "p">>

\* str::contains
Contains(hay, needle) ==
    \E i \in 1..(Len(hay) - Len(needle) + 1) :
        SubSeq(hay, i, i + Len(needle) - 1) = needle

\* A byte outside visible ASCII, written as one character of the value
NonAsciiByte == "0xE9"

\* HeaderValue::to_str: Ok only when every byte is visible ASCII
to_str(value) ==
    IF \A i \in 1..Len(value) : value[i] # NonAsciiByte THEN Some(value) ELSE None

\* HeaderMap::get(ACCEPT): the first value of the header, if any.
\* headers is the sequence of the request's Accept header values.
get_accept(headers) == IF Len(headers) = 0 THEN None ELSE Some(headers[1])

\* mutant of determine_format: without a readable Accept value the format is
\* OutputFormat::default(), which is WebP
determine_format_default_webp(headers) ==
    LET v == get_accept(headers)
        str == IF IsSome(v) THEN to_str(Unwrap(v)) ELSE None
    IN  IF IsNone(str) THEN "WebP"
        ELSE IF Contains(Unwrap(str), WebpNeedle) THEN "WebP" ELSE "Png"

determine_format(headers) ==
    LET v == get_accept(headers)
        str == IF IsSome(v) THEN to_str(Unwrap(v)) ELSE None
        accept == IF IsSome(str) THEN Unwrap(str) ELSE <<>>
    IN  IF Contains(accept, WebpNeedle) THEN "WebP" ELSE "Png"

UpperCase == <<"A", "B", "C", "D", "E", "F", "G", "H", "I", "J", "K", "L", "M",
               "N", "O", "P", "Q", "R", "S", "T", "U", "V", "W", "X", "Y", "Z">>
LowerCase == <<"a", "b", "c", "d", "e", "f", "g", "h", "i", "j", "k", "l", "m",
               "n", "o", "p", "q", "r", "s", "t", "u", "v", "w", "x", "y", "z">>

\* str::to_lowercase
to_lowercase(str) ==
    [i \in 1..Len(str) |->
        IF \E k \in 1..26 : UpperCase[k] = str[i]
        THEN LowerCase[CHOOSE k \in 1..26 : UpperCase[k] = str[i]]
        ELSE str[i]]

\* FitMode::from_str
FitMode_from_str(str) ==
    LET l == to_lowercase(str)
    IN  CASE l = <<"c", "o", "v", "e", "r">> -> Some("Cover")
          [] l = <<"c", "o", "n", "t", "a", "i", "n">> -> Some("Contain")
          [] l = <<"f", "i", "l", "l">> -> Some("Fill")
          [] OTHER -> None

\* FitMode::default (#[default] Cover)
FitModeDefault == "Cover"

\* mutant of check_dimension: the zero test left out
check_dimension_no_zero(v, max_dimension, zero_msg) ==
    IF IsSome(v) /\ Unwrap(v) > max_dimension
    THEN Err(DimensionTooLarge(Unwrap(v), max_dimension))
    ELSE Ok(v)

\* mutant of check_dimension: the ceiling itself rejected (>= for >)
check_dimension_off_by_one(v, max_dimension, zero_msg) ==
    IF IsSome(v)
    THEN IF Unwrap(v) >= max_dimension /\ Unwrap(v) # 0
         THEN Err(DimensionTooLarge(Unwrap(v), max_dimension))
         ELSE IF Unwrap(v) = 0
         THEN Err(InvalidParameter(zero_msg))
         ELSE Ok(v)
    ELSE Ok(v)

\* get_image: the check of one of w / h
check_dimension(v, max_dimension, zero_msg) ==
    IF IsSome(v)
    THEN IF Unwrap(v) > max_dimension
         THEN Err(DimensionTooLarge(Unwrap(v), max_dimension))
         ELSE IF Unwrap(v) = 0
         THEN Err(InvalidParameter(zero_msg))
         ELSE Ok(v)
    ELSE Ok(v)

\* mutant of check_quality: only the upper bound tested
check_quality_no_lower_bound(q, webp_default_quality) ==
    LET quality == IF IsSome(q) THEN Unwrap(q) ELSE webp_default_quality
    IN  IF quality > 100
        THEN Err(InvalidParameter("quality must be between 1 and 100"))
        ELSE Ok(quality)

\* get_image: the effective quality and its check
check_quality(q, webp_default_quality) ==
    LET quality == IF IsSome(q) THEN Unwrap(q) ELSE webp_default_quality
    IN  IF quality = 0 \/ quality > 100
        THEN Err(InvalidParameter("quality must be between 1 and 100"))
        ELSE Ok(quality)

\* get_image: the fit mode
parse_fit(fit) ==
    LET m == IF IsSome(fit) THEN FitMode_from_str(Unwrap(fit)) ELSE None
    IN  IF IsSome(m) THEN Unwrap(m) ELSE FitModeDefault

\* get_image up to the call of get_object: Err(e), or Ok of the locals that
\* the rest of the handler uses
get_image_validate(cfg, p) ==
    LET pp == parse_path(p.path)
        cw == check_dimension(p.w, cfg.max_dimension, "width must be greater than 0")
        ch == check_dimension(p.h, cfg.max_dimension, "height must be greater than 0")
        cq == check_quality(p.q, cfg.webp_default_quality)
    IN  IF ~pp.ok THEN pp
        ELSE IF ~cw.ok THEN cw
        ELSE IF ~ch.ok THEN ch
        ELSE IF ~cq.ok THEN cq
        ELSE Ok([bucket |-> pp.value.bucket, key |-> pp.value.key,
                 quality |-> cq.value, fit_mode |-> parse_fit(p.fit),
                 output_format |-> determine_format(p.headers)])

\* get_image: the ConversionRequest built after the fetch
conversion_request(data, p, prep) ==
    [data |-> data, width |-> p.w, height |-> p.h,
     output_format |-> prep.output_format, quality |-> prep.quality,
     fit_mode |-> prep.fit_mode]

\* get_image: the success response
success_response(res) ==
    [status |-> StatusOK, content_type |-> res.content_type,
     cache_control |-> "public, max-age=31536000, immutable", vary |-> "Accept",
     body |-> [kind |-> "image", bytes |-> res.data]]

\* mutant of get_image_resume: a failed fetch is not returned; the handler
\* goes on to convert with empty bytes
get_image_resume_ignoring_fetch_error(got, p, prep) ==
    LET data == IF got.ok THEN got.value ELSE Undecodable
        req == conversion_request(data, p, prep)
    IN  { [called |-> TRUE, request |-> Some(req), resized |-> c.resized,
           result |-> Some(c.ret),
           outcome |-> CASE c.ret.kind = "ok" -> Returned("response")
                         [] c.ret.kind = "err" -> Failed(c.ret.err)
                         [] c.ret.kind = "panic" -> Panicked,
           responses |-> CASE c.ret.kind = "ok" -> <<success_response(c.ret.value)>>
                           [] c.ret.kind = "err" -> <<into_response(c.ret.err)>>
                           [] c.ret.kind = "panic" -> <<>>]
          : c \in convert(req) }

\* get_image after the await: the possible runs of the rest of the handler,
\* given what get_object returned.  Each run: whether convert was called and
\* with what, what it did, what get_image returned and the responses written.
get_image_resume(got, p, prep) ==
    IF ~got.ok
    THEN {[called |-> FALSE, request |-> None, resized |-> None, result |-> None,
           outcome |-> Failed(got.err), responses |-> <<into_response(got.err)>>]}
    ELSE LET req == conversion_request(got.value, p, prep)
         IN  { [called |-> TRUE, request |-> Some(req), resized |-> c.resized,
                result |-> Some(c.ret),
                outcome |-> CASE c.ret.kind = "ok" -> Returned("response")
                              [] c.ret.kind = "err" -> Failed(c.ret.err)
                              [] c.ret.kind = "panic" -> Panicked,
                responses |-> CASE c.ret.kind = "ok" -> <<success_response(c.ret.value)>>
                                [] c.ret.kind = "err" -> <<into_response(c.ret.err)>>
                                [] c.ret.kind = "panic" -> <<>>]
               : c \in convert(req) }

-----------------------------------------------------------------------------
(* Inputs *)

\* WEBP_DEFAULT_QUALITY when the variable is not set
DefaultQuality == 85

\* two configurations: the defaults' shape, and one whose default quality is
\* itself out of range (WEBP_DEFAULT_QUALITY=0 parses as a u8)
Configs ==
    {[max_dimension |-> MaxDimension, webp_default_quality |-> DefaultQuality],
     [max_dimension |-> MaxDimension - 1, webp_default_quality |-> 0]}

HandlerPaths == SeqsUpTo({"/", "a"}, MaxHandlerPathLen)

DimensionOptions == {None} \cup {Some(v) : v \in 0..(MaxDimension + 1)}

\* q is a u8
QualityOptions == {None, Some(0), Some(1), Some(100), Some(101)}

FitOptions ==
    {None, Some(<<"F", "i", "l", "l">>), Some(<<"C", "O", "N", "T", "A", "I", "N">>),
     Some(<<"p", "a", "d">>)}

AcceptHtml == <<"t", "e", "x", "t", "/", "h", "t", "m", "l">>
AcceptWebp == WebpNeedle
AcceptList == <<"i", "m", "a", "g", "e", "/", "*", ",">> \o WebpNeedle \o <<";", "q", "=", "1">>
AcceptUpper == <<"I", "M", "A", "G", "E", "/", "W", "E", "B", "P">>
AcceptNonAscii == WebpNeedle \o <<",", NonAsciiByte>>

\* the Accept header values of a request, in order
HeaderOptions ==
    {<<>>, <<AcceptHtml>>, <<AcceptList>>, <<AcceptUpper>>, <<AcceptNonAscii>>,
     <<AcceptHtml, AcceptWebp>>}

Requests ==
    [path : HandlerPaths, w : DimensionOptions, h : DimensionOptions,
     q : QualityOptions, fit : FitOptions, headers : HeaderOptions]

S3ErrStrings ==
    {<<"NoSuchKey">>, <<"HTTP", "404">>, <<"key", "not found">>,
     <<"connection", "refused">>, <<"HTTP", "500">>}

S3Behaviours ==
    {[new_ok |-> FALSE, get_ok |-> FALSE, err_str |-> <<"invalid", "bucket">>,
      status |-> 0, body |-> Undecodable]}
    \cup {[new_ok |-> TRUE, get_ok |-> FALSE, err_str |-> e, status |-> 0,
           body |-> Undecodable] : e \in S3ErrStrings}
    \cup {[new_ok |-> TRUE, get_ok |-> TRUE, err_str |-> <<>>, status |-> st,
           body |-> b] : st \in {200, 404}, b \in Bodies(MaxSourceSide)}
    \cup {[new_ok |-> TRUE, get_ok |-> TRUE, err_str |-> <<>>, status |-> 403,
           body |-> Undecodable]}

Pending == [kind |-> "pending"]

-----------------------------------------------------------------------------
(* The handler: one request through get_image *)

Init ==
    /\ config \in Configs
    /\ pc = "start"
    /\ params = None
    /\ prepared = None
    /\ fetchCalls = 0
    /\ convertCalls = 0
    /\ fetched = None
    /\ request = None
    /\ resized = None
    /\ result = None
    /\ outcome = Pending
    /\ responses = <<>>
    /\ path = <<>>
    /\ parsed = None

\* get_image from its entry to the await on s3_client.get_object: a
\* validation error returns at once; otherwise get_object is called
GetImage ==
    /\ pc = "start"
    /\ \E p \in Requests :
        LET v == get_image_validate(config, p)
        IN  /\ params' = Some(p)
            /\ IF v.ok
               THEN /\ prepared' = Some(v.value)
                    /\ fetchCalls' = fetchCalls + 1
                    /\ pc' = "fetching"
                    /\ UNCHANGED <<outcome, responses>>
               ELSE /\ outcome' = Failed(v.err)
                    /\ responses' = Append(responses, into_response(v.err))
                    /\ pc' = "done"
                    /\ UNCHANGED <<prepared, fetchCalls>>
    /\ UNCHANGED <<config, convertCalls, fetched, request, resized, result, path, parsed>>

\* get_object completes and get_image runs to its end: an error of the fetch
\* is returned; otherwise convert is called and its outcome becomes the
\* response
GetObjectReturns ==
    /\ pc = "fetching"
    /\ \E s3 \in S3Behaviours :
        LET prep == Unwrap(prepared)
            got == get_object(prep.bucket, prep.key, s3)
        IN  /\ fetched' = Some(got)
            /\ \E run \in get_image_resume(got, Unwrap(params), prep) :
                 /\ convertCalls' = IF run.called THEN convertCalls + 1 ELSE convertCalls
                 /\ request' = run.request
                 /\ resized' = run.resized
                 /\ result' = run.result
                 /\ outcome' = run.outcome
                 /\ responses' = responses \o run.responses
    /\ pc' = "done"
    /\ UNCHANGED <<config, params, prepared, fetchCalls, path, parsed>>

Next == GetImage \/ GetObjectReturns

Spec == Init /\ [][Next]_vars

-----------------------------------------------------------------------------
(* Driver of parse_path: every path up to MaxPathLen characters *)

InitPath ==
    /\ config = [max_dimension |-> MaxDimension, webp_default_quality |-> DefaultQuality]
    /\ pc = "parse"
    /\ params = None
    /\ prepared = None
    /\ fetchCalls = 0
    /\ convertCalls = 0
    /\ fetched = None
    /\ request = None
    /\ resized = None
    /\ result = None
    /\ outcome = Pending
    /\ responses = <<>>
    /\ path \in Paths
    /\ parsed = None

ParsePath ==
    /\ pc = "parse"
    /\ parsed' = Some(parse_path(path))
    /\ pc' = "parsed"
    /\ UNCHANGED <<config, params, prepared, fetchCalls, convertCalls, fetched,
                   request, resized, result, outcome, responses, path>>

NextPath == ParsePath

SpecPath == InitPath /\ [][NextPath]_vars

-----------------------------------------------------------------------------
(* Driver of convert: every ConversionRequest that get_image can build with *)
(* max_dimension = MaxConvertTarget and sources up to MaxConvertSide        *)

ConvertDimensionOptions == {None} \cup {Some(v) : v \in 1..MaxConvertTarget}

ConversionRequests ==
    [data : Bodies(MaxConvertSide), width : ConvertDimensionOptions,
     height : ConvertDimensionOptions, output_format : OutputFormats,
     quality : {DefaultQuality}, fit_mode : FitModes]

InitConvert ==
    /\ config = [max_dimension |-> MaxConvertTarget, webp_default_quality |-> DefaultQuality]
    /\ pc = "convert"
    /\ params = None
    /\ prepared = None
    /\ fetchCalls = 0
    /\ convertCalls = 0
    /\ fetched = None
    /\ request \in {Some(r) : r \in ConversionRequests}
    /\ resized = None
    /\ result = None
    /\ outcome = Pending
    /\ responses = <<>>
    /\ path = <<>>
    /\ parsed = None

Convert ==
    /\ pc = "convert"
    /\ convertCalls' = convertCalls + 1
    /\ \E c \in convert(Unwrap(request)) :
         /\ resized' = c.resized
         /\ result' = Some(c.ret)
    /\ pc' = "converted"
    /\ UNCHANGED <<config, params, prepared, fetchCalls, fetched, request, outcome,
                   responses, path, parsed>>

NextConvert == Convert

SpecConvert == InitConvert /\ [][NextConvert]_vars

-----------------------------------------------------------------------------
(* Vocabulary of the properties, stated on the request itself *)

Req == Unwrap(params)
Arrived == IsSome(params)

\* a path is accepted when, after its leading slashes, a non-empty container
\* is followed by '/' and a non-empty key
PathAccepted(p) ==
    \E m \in 1..Len(p), k \in 1..Len(p) :
        m < k /\ p[m] # "/" /\ p[k] = "/" /\ k < Len(p)

DimensionValid(v) == IsNone(v) \/ (Unwrap(v) > 0 /\ Unwrap(v) <= config.max_dimension)
DimensionZero(v) == IsSome(v) /\ Unwrap(v) = 0
DimensionOver(v) == IsSome(v) /\ Unwrap(v) > config.max_dimension

EffectiveQuality ==
    IF IsSome(Req.q) THEN Unwrap(Req.q) ELSE config.webp_default_quality
QualityValid == EffectiveQuality >= 1 /\ EffectiveQuality <= 100

ValidationFails ==
    \/ ~PathAccepted(Req.path)
    \/ ~DimensionValid(Req.w)
    \/ ~DimensionValid(Req.h)
    \/ ~QualityValid

IsValidationError(o) ==
    o.kind = "err" /\ o.err.kind \in {"InvalidParameter", "DimensionTooLarge"}

-----------------------------------------------------------------------------
(* C1 *)

\* C1: a request whose validation fails (malformed path, zero or too large
\* w/h, quality outside 1..=100) is answered with its validation error
\* before any work: get_object and convert are never called for it.
C1_FailFast ==
    Arrived =>
        /\ ValidationFails =>
             /\ pc = "done"
             /\ IsValidationError(outcome)
             /\ fetchCalls = 0
             /\ convertCalls = 0
             /\ fetched = None
        /\ IsValidationError(outcome) => fetchCalls = 0 /\ convertCalls = 0

C1_Witness ==
    /\ Arrived
    /\ pc = "done"
    /\ PathAccepted(Req.path)
    /\ DimensionOver(Req.w)
    /\ outcome = Failed(DimensionTooLarge(Unwrap(Req.w), config.max_dimension))
    /\ fetchCalls = 0

-----------------------------------------------------------------------------
(* C4 *)

WidthZeroMsg == "width must be greater than 0"
HeightZeroMsg == "height must be greater than 0"

\* C4: w and h are checked in this order once the path has parsed.  A
\* present value is accepted only when 0 < value <= max_dimension; the first
\* offending value decides the error: zero gives InvalidParameter, a value
\* above max_dimension gives DimensionTooLarge(value, max_dimension) with
\* exactly that value and the configured ceiling; an absent value is never an
\* error.
C4_DimensionValidation ==
    (Arrived /\ PathAccepted(Req.path)) =>
        /\ DimensionOver(Req.w) =>
             outcome = Failed(DimensionTooLarge(Unwrap(Req.w), config.max_dimension))
        /\ DimensionZero(Req.w) => outcome = Failed(InvalidParameter(WidthZeroMsg))
        /\ (DimensionValid(Req.w) /\ DimensionOver(Req.h)) =>
             outcome = Failed(DimensionTooLarge(Unwrap(Req.h), config.max_dimension))
        /\ (DimensionValid(Req.w) /\ DimensionZero(Req.h)) =>
             outcome = Failed(InvalidParameter(HeightZeroMsg))
        \* accepted only when in range
        /\ fetchCalls > 0 => DimensionValid(Req.w) /\ DimensionValid(Req.h)
        \* values in range (or absent) are not what rejects the request
        /\ (DimensionValid(Req.w) /\ DimensionValid(Req.h) /\ QualityValid) =>
             fetchCalls = 1
        /\ (outcome.kind = "err" /\ outcome.err.kind = "DimensionTooLarge") =>
             /\ outcome.err.max = config.max_dimension
             /\ outcome.err.requested > config.max_dimension
             /\ \/ Req.w = Some(outcome.err.requested)
                \/ Req.h = Some(outcome.err.requested)
        /\ IsNone(Req.w) => outcome # Failed(InvalidParameter(WidthZeroMsg))
        /\ IsNone(Req.h) => outcome # Failed(InvalidParameter(HeightZeroMsg))

C4_Witness ==
    /\ Arrived
    /\ PathAccepted(Req.path)
    /\ Req.w = Some(config.max_dimension)
    /\ DimensionOver(Req.h)
    /\ outcome = Failed(DimensionTooLarge(Unwrap(Req.h), config.max_dimension))
    /\ responses = <<into_response(outcome.err)>>

-----------------------------------------------------------------------------
(* C5 *)

QualityMsg == "quality must be between 1 and 100"

\* C5: the effective quality is q, or the configured default when q is
\* absent.  Once path and dimensions have passed, an effective quality of 0
\* or above 100 gives InvalidParameter and every value in 1..=100 passes; a
\* request with an out-of-range quality is never fetched or converted, so
\* every ConversionRequest handed to convert carries the effective quality,
\* which lies in [1,100].
C5_QualityValidation ==
    Arrived =>
        /\ (PathAccepted(Req.path) /\ DimensionValid(Req.w) /\ DimensionValid(Req.h)) =>
             /\ ~QualityValid =>
                  /\ outcome = Failed(InvalidParameter(QualityMsg))
                  /\ responses = <<into_response(InvalidParameter(QualityMsg))>>
             /\ QualityValid =>
                  /\ fetchCalls = 1
                  /\ Unwrap(prepared).quality = EffectiveQuality
        /\ ~QualityValid =>
             /\ IsValidationError(outcome)
             /\ fetchCalls = 0
             /\ convertCalls = 0
        /\ IsSome(request) =>
             /\ Unwrap(request).quality = EffectiveQuality
             /\ Unwrap(request).quality >= 1
             /\ Unwrap(request).quality <= 100

C5_Witness ==
    /\ Arrived
    /\ IsNone(Req.q)
    /\ IsSome(request)
    /\ Unwrap(request).quality = config.webp_default_quality
    /\ convertCalls = 1

-----------------------------------------------------------------------------
(* C6 *)

AllVisibleAscii(value) == \A i \in 1..Len(value) : value[i] # NonAsciiByte

\* the request declares image/webp in some Accept header value
AcceptSignalHasWebp(headers) ==
    \E i \in 1..Len(headers) : Contains(headers[i], WebpNeedle)

\* the first Accept header value is visible ASCII and contains image/webp
FirstAcceptHasWebp(headers) ==
    /\ Len(headers) > 0
    /\ AllVisibleAscii(headers[1])
    /\ Contains(headers[1], WebpNeedle)

\* on success the Content-Type is that of the selected format
ContentTypeFollowsFormat ==
    (IsSome(prepared) /\ outcome.kind = "ok") =>
        /\ Len(responses) = 1
        /\ (responses[1].content_type = "image/webp") <=> (Unwrap(prepared).output_format = "WebP")
        /\ (responses[1].content_type = "image/png") <=> (Unwrap(prepared).output_format = "Png")

\* C6 as stated: the output format is WEBP if and only if the request's
\* Accept signal contains the substring image/webp, PNG otherwise; on success
\* the Content-Type is image/webp exactly when WEBP was selected and
\* image/png exactly when PNG was selected.
C6_AsStated ==
    /\ IsSome(prepared) =>
         /\ Unwrap(prepared).output_format = "WebP" <=> AcceptSignalHasWebp(Req.headers)
         /\ Unwrap(prepared).output_format = "Png" <=> ~AcceptSignalHasWebp(Req.headers)
    /\ ContentTypeFollowsFormat

\* C6 (amended): the output format is WEBP if and only if the first Accept
\* header value of the request is visible ASCII and contains the substring
\* image/webp, PNG otherwise (no Accept header, a first value with a byte
\* outside visible ASCII, or image/webp only in a later Accept header line);
\* on success the Content-Type is image/webp exactly when WEBP was selected
\* and image/png exactly when PNG was selected.
C6_FormatNegotiation ==
    /\ IsSome(prepared) =>
         /\ Unwrap(prepared).output_format = "WebP" <=> FirstAcceptHasWebp(Req.headers)
         /\ Unwrap(prepared).output_format = "Png" <=> ~FirstAcceptHasWebp(Req.headers)
         /\ IsSome(request) => Unwrap(request).output_format = Unwrap(prepared).output_format
    /\ ContentTypeFollowsFormat

C6_Witness ==
    /\ Arrived
    /\ Req.headers = <<AcceptList>>
    /\ outcome.kind = "ok"
    /\ Len(responses) = 1
    /\ responses[1].status = StatusOK
    /\ responses[1].content_type = "image/webp"

-----------------------------------------------------------------------------
(* C7 *)

\* C7: when get_object returns NotFound or a transport failure (S3Error) the
\* request ends at once with that error (404 for NotFound, 502 for S3Error):
\* convert is not called and get_object is not called again; convert is
\* called only after a get_object that returned bytes, and with those bytes.
C7_FetchFailureIsTerminal ==
    /\ fetchCalls <= 1
    /\ convertCalls <= 1
    /\ (IsSome(fetched) /\ ~Unwrap(fetched).ok) =>
         /\ pc = "done"
         /\ Unwrap(fetched).err.kind \in {"NotFound", "S3Error"}
         /\ outcome = Failed(Unwrap(fetched).err)
         /\ convertCalls = 0
         /\ request = None
         /\ fetchCalls = 1
         /\ Len(responses) = 1
         /\ Unwrap(fetched).err.kind = "NotFound" => responses[1].status = StatusNotFound
         /\ Unwrap(fetched).err.kind = "S3Error" => responses[1].status = StatusBadGateway
    /\ convertCalls > 0 =>
         /\ fetchCalls = 1
         /\ IsSome(fetched)
         /\ Unwrap(fetched).ok
         /\ IsSome(request)
         /\ Unwrap(request).data = Unwrap(fetched).value

C7_Witness ==
    /\ pc = "done"
    /\ IsSome(fetched)
    /\ ~Unwrap(fetched).ok
    /\ Unwrap(fetched).err.kind = "NotFound"
    /\ Len(responses) = 1
    /\ responses[1].status = StatusNotFound
    /\ convertCalls = 0

-----------------------------------------------------------------------------
(* C8 *)

\* the response class of an error kind
ErrorClass(kind) ==
    CASE kind \in {"InvalidParameter", "DimensionTooLarge"} -> StatusBadRequest
      [] kind = "NotFound" -> StatusNotFound
      [] kind = "S3Error" -> StatusBadGateway
      [] kind \in {"ImageError", "WebPError"} -> StatusInternalServerError

\* the encoder could not encode the resized image: libwebp and the PNG
\* encoder both reject a picture with a zero side
EncodeFailed ==
    /\ IsSome(resized)
    /\ (Unwrap(resized).width = 0 \/ Unwrap(resized).height = 0)

\* C8: every request ends in exactly one response: a 200 carrying the
\* encoded bytes, or one error response whose class follows from the error
\* kind alone (InvalidParameter, DimensionTooLarge: client error; NotFound:
\* not found; storage transport failure: upstream failure; decode or encode
\* failure: internal failure); no success body is written once a step has
\* failed.
C8_ExactlyOneResponse ==
    pc = "done" =>
        /\ Len(responses) = 1
        /\ outcome.kind \in {"ok", "err"}
        /\ outcome.kind = "err" =>
             /\ responses[1].status = ErrorClass(outcome.err.kind)
             /\ responses[1].body.kind = "text"
        /\ outcome.kind = "ok" =>
             /\ responses[1].status = StatusOK
             /\ responses[1].body.kind = "image"
             /\ responses[1].body.bytes.format \in {"png", "webp"}
        /\ EncodeFailed =>
             /\ outcome.kind = "err"
             /\ responses[1].status = StatusInternalServerError

-----------------------------------------------------------------------------
(* C10 *)

\* C10: for a request that passed validation with w or h given and a decoded
\* source with positive sides, both sides of the image that resize_image
\* returns (the one handed to the encoder) lie in 1..=max_dimension.
C10_OutputWithinCeiling ==
    (Arrived /\ IsSome(resized) /\ (IsSome(Req.w) \/ IsSome(Req.h))) =>
        /\ Unwrap(resized).width >= 1
        /\ Unwrap(resized).height >= 1
        /\ Unwrap(resized).width <= config.max_dimension
        /\ Unwrap(resized).height <= config.max_dimension

-----------------------------------------------------------------------------
(* C2 *)

CReq == Unwrap(request)
Converted == pc = "converted" /\ IsSome(resized)
WidthOnly == IsSome(CReq.width) /\ IsNone(CReq.height)
HeightOnly == IsNone(CReq.width) /\ IsSome(CReq.height)

\* round(n / d), halves away from zero, and floor(n / d), on exact integers
RoundDiv(n, d) == (2 * n + d) \div (2 * d)
FloorDiv(n, d) == n \div d

\* the side computed from the aspect ratio: the exact quotient n / d
\* truncated, or one less when the quotient is a whole number that the f64
\* product falls short of
TruncatedSide(side, n, d) ==
    \/ side = FloorDiv(n, d)
    \/ side = FloorDiv(n, d) - 1 /\ n % d = 0

\* C2 as stated: a width-only request gives output width exactly w and
\* output height exactly round(original_height * w / original_width); a
\* height-only request gives output height exactly h and output width
\* exactly round(original_width * h / original_height).
C2_AsStated ==
    Converted =>
        /\ WidthOnly =>
             /\ Unwrap(resized).width = Unwrap(CReq.width)
             /\ Unwrap(resized).height =
                  RoundDiv(CReq.data.height * Unwrap(CReq.width), CReq.data.width)
        /\ HeightOnly =>
             /\ Unwrap(resized).height = Unwrap(CReq.height)
             /\ Unwrap(resized).width =
                  RoundDiv(CReq.data.width * Unwrap(CReq.height), CReq.data.height)

\* C2 (amended): a width-only request gives output width exactly w and
\* output height the f64 product original_height * (w / original_width)
\* truncated toward zero, not rounded: floor(original_height * w /
\* original_width), or one less when that quotient is a whole number and the
\* f64 product falls just below it; the height-only case is symmetric.
C2_TruncatedAspect ==
    Converted =>
        /\ WidthOnly =>
             /\ Unwrap(resized).width = Unwrap(CReq.width)
             /\ TruncatedSide(Unwrap(resized).height,
                              CReq.data.height * Unwrap(CReq.width), CReq.data.width)
        /\ HeightOnly =>
             /\ Unwrap(resized).height = Unwrap(CReq.height)
             /\ TruncatedSide(Unwrap(resized).width,
                              CReq.data.width * Unwrap(CReq.height), CReq.data.height)

\* a 3x4 source at w = 2: 4 * 2 / 3 = 2.67 is truncated to 2 (rounding
\* would give 3)
C2_Witness ==
    /\ Converted
    /\ WidthOnly
    /\ CReq.data.width = 3
    /\ CReq.data.height = 4
    /\ Unwrap(CReq.width) = 2
    /\ Unwrap(resized) = Image(2, 2)

-----------------------------------------------------------------------------
(* C9 *)

BothGiven == IsSome(CReq.width) /\ IsSome(CReq.height)

\* C9: with both w and h given (each > 0 and <= max_dimension) and any
\* decoded source, the resize step returns exactly w x h pixels in COVER mode
\* and in FILL mode, whatever the aspect ratio of the source, and the
\* original dimensions reported are those of the decoded source.
C9_ExactBox ==
    (Converted /\ BothGiven /\ CReq.fit_mode \in {"Cover", "Fill"}) =>
        /\ Unwrap(resized) = Image(Unwrap(CReq.width), Unwrap(CReq.height))
        /\ Unwrap(result).kind = "ok"
        /\ Unwrap(result).value.output_width = Unwrap(CReq.width)
        /\ Unwrap(result).value.output_height = Unwrap(CReq.height)
        /\ Unwrap(result).value.original_width = CReq.data.width
        /\ Unwrap(result).value.original_height = CReq.data.height

\* COVER on a source whose aspect ratio is far from the box's
C9_Witness ==
    /\ Converted
    /\ BothGiven
    /\ CReq.fit_mode = "Cover"
    /\ CReq.data.width = 11
    /\ CReq.data.height = 2
    /\ Unwrap(resized) = Image(3, 7)
    /\ Unwrap(result).kind = "ok"
    /\ Unwrap(result).value.original_width = 11

-----------------------------------------------------------------------------
(* C3 *)

\* The path grammar as the specification words it: one leading slash is
\* stripped, the container is what precedes the first '/', the key is
\* everything after it
StripOneSlash(p) == IF Len(p) > 0 /\ Head(p) = "/" THEN Tail(p) ELSE p

HasSlash(t) == \E i \in 1..Len(t) : t[i] = "/"

StatedContainer(p) ==
    LET t == StripOneSlash(p) IN SubSeq(t, 1, FindSlash(t) - 1)

StatedKey(p) ==
    LET t == StripOneSlash(p) IN SubSeq(t, FindSlash(t) + 1, Len(t))

StatedMalformed(p) ==
    \/ ~HasSlash(StripOneSlash(p))
    \/ Len(StatedContainer(p)) = 0
    \/ Len(StatedKey(p)) = 0

\* C3: a path with no '/' between container and key, or with an empty
\* container or an empty key (after one leading slash is stripped), yields
\* InvalidParameter; every other path yields exactly its (container, key)
\* pair, the key being everything after the first '/'.
C3_PathParsing ==
    pc = "parsed" =>
        IF StatedMalformed(path)
        THEN /\ ~Unwrap(parsed).ok
             /\ Unwrap(parsed).err.kind = "InvalidParameter"
        ELSE Unwrap(parsed) = Ok([bucket |-> StatedContainer(path), key |-> StatedKey(path)])

=============================================================================
